---- MODULE Spec2Model ----
(***************************************************************************)
(* A model of go-plum/plum: the router (Group / Use / Handle composing     *)
(* middleware into handlers registered on the mux), the context pool, the  *)
(* per-request Context with its flow-control index, the Recover            *)
(* middleware, and the two ServeHTTP dispatchers.                          *)
(*                                                                         *)
(* Strings are sequences of tokens ("/" is a token of its own), so that    *)
(* concatenation and HasSuffix are computed and not assumed.  A composed   *)
(* HandlerFunc is the sequence of the closures it nests, outermost first:  *)
(* middleware(handler) is <<middleware>> \o handler.  Go slices are        *)
(* references into a heap of backing arrays, so that sharing between a     *)
(* parent router, its children and the caller's variadic slice is visible. *)
(*                                                                         *)
(* Two specifications, as in the program of part_001, which registers its  *)
(* routes and then serves: SpecRouter is the registration (Group, Use and  *)
(* Handle in any order on the router New returns), Spec is the serving of  *)
(* concurrent requests on a mux registered that way.  A request runs on a  *)
(* goroutine of its own; what a middleware or handler does is any sequence *)
(* of context calls, a call of the handler it wraps, a panic or a return.  *)
(* The steps of a goroutine that touch nothing shared (the mux lookup, the *)
(* assignments to the context just taken) are taken together with the      *)
(* pool.Get they follow.  Request r + 1 arrives no earlier than request r. *)
(*                                                                         *)
(* Four more specifications look at one part each.  SpecContext is one     *)
(* context in memory, its map and its parameter array as heap objects, so  *)
(* that what Copy shares with the original is visible; SpecIndex is the    *)
(* chain index under any number of Next and Abort calls; SpecLock is the   *)
(* context shared by goroutines, each call taken apart into its lock       *)
(* operations and its accesses to Keys; SpecServer is the lifecycle: Run,  *)
(* RunTLS, RunServer and Shutdown on http.Server objects.                  *)
(*                                                                         *)
(* net/http and sync are modelled by what the code relies on: the mux      *)
(* resolves method and path to the most specific pattern, the empty        *)
(* pattern or a redirect; WriteHeader keeps the first status; a Pool hands *)
(* out a context it holds, or a new one, and no longer holds it.           *)
(***************************************************************************)
EXTENDS Integers, Sequences, FiniteSets, TLC

(* ---------------- bounds of the model ---------------- *)
MaxRouters == 4      \* routers: the root, the pprof group, and user groups
MaxRoutes == 1       \* routes registered by user Handle calls
MaxMws == 4          \* longest middleware list of a router
MaxArrays == 4       \* backing arrays: the caller's, the one of New, one per Use
MaxReqs == 2         \* requests handled concurrently
MaxOps == 2          \* context operations the handlers perform in all
MaxObjs == 3         \* Context objects in memory: the request's and its copies
MaxCalls == 4        \* calls the handler and its goroutines make on those objects
MaxServed == 2       \* requests one pooled context is handed to, one after another
MaxGors == 2         \* goroutines that share one context
MaxServers == 4      \* http.Server objects: the caller's two and those Run makes
MaxLife == 3         \* lifecycle calls made on the Plum

(* ---------------- program constants ---------------- *)
abortIndex == 63                       \* math.MaxInt8 >> 1
StatusBadRequest == 400
StatusInternalServerError == 500
StatusUnauthorized == 401
StatusOK == 200

VARIABLES
    arr,        \* heap of backing arrays of []Middleware slices
    ms,         \* the caller's own []Middleware slice (a reference into arr)
    routers,    \* the Router values created so far; routers[1] is Plum.Router
    routes,     \* the patterns registered on Plum.mux with their RouterHandler
    order,      \* per router: the middleware in the order it was supplied
    regs,       \* per user route: what was supplied when it was registered
    pool,       \* Plum.pool: the contexts waiting in the sync.Pool
    ctxs,       \* the Context objects allocated so far by pool.New
    reqs,       \* the requests: where each one's goroutine is, and its response
    nops,       \* context operations performed so far
    objs,       \* memory: the Context objects a handler and its goroutines work on
    bags,       \* memory: the maps made for Context.Keys
    parr,       \* memory: the backing arrays of Context.Params slices
    hist,       \* per object of objs: what its own calls have given it so far
    srv,        \* Plum.srv: the http.Server installed (0 is nil)
    servers,    \* the http.Server objects, of Plum's making or the caller's
    ret,        \* what the last lifecycle call returned
    gor,        \* the goroutines sharing objs[1]: the call each is in, and where
    mu          \* Context.mu of objs[1]

rvars == <<arr, ms, routers, routes, order, regs>>
svars == <<pool, ctxs, reqs, nops>>
cvars == <<objs, bags, parr, hist>>
lvars == <<srv, servers, ret>>
gvars == <<gor, mu>>
vars == <<arr, ms, routers, routes, order, regs, pool, ctxs, reqs, nops,
          objs, bags, parr, hist, srv, servers, ret, gor, mu>>

(* ---------------- slices ---------------- *)
\* slices.Reverse: the elements of s in reverse order (done in place by the callers below)
Reverse(s) == [i \in 1..Len(s) |-> s[Len(s) + 1 - i]]

\* slices.Concat: a NEW slice holding a then b
Concat(a, b) == a \o b

(* ---------------- names ---------------- *)
Recover == "Recover"                   \* the recovery middleware
UserMws == {"A", "B", "C"}             \* middleware written by the user
UserHandlers == {"hello"}              \* terminal handlers written by the user
PprofHandler == "pprof"                \* pprofHandlerFunc / pprofHandler closures
Methods == {"GET", "POST"}
GroupPaths == {<<"/", "1">>, <<"/", "2">>}
RoutePaths == {<<"/", "hello">>, <<"/", "dir", "/">>}
Literals == {<<"C">>}                  \* variadic arguments written out at the call
DefaultPrefix == <<"/", "debug", "/", "pprof">>

(* ---------------- router ---------------- *)
\* strings.HasSuffix(route, "/")
HasSuffixSlash(route) == Len(route) > 0 /\ route[Len(route)] = "/"

\* a Handle that registers the route as it was given
PatternAsGiven(method, scope, route) == <<method, " ">> \o scope \o route

\* the pattern Handle hands to mux.Handle: method + " " + r.scope + route
Pattern(method, scope, route) ==
    LET rt == IF HasSuffixSlash(route) THEN route \o <<"{$}">> ELSE route
    IN  <<method, " ">> \o scope \o rt

\* Router.withMiddlewares: handler = middleware(handler) for each middleware in
\* list order, so the LAST element of the list is the outermost closure
RECURSIVE withMiddlewaresFrom(_, _, _)
withMiddlewaresFrom(mws, i, handler) ==
    IF i > Len(mws) THEN handler
    ELSE withMiddlewaresFrom(mws, i + 1, <<mws[i]>> \o handler)

withMiddlewares(mws, handler) == withMiddlewaresFrom(mws, 1, handler)

\* slices.Reverse(m) of Use and Group acts on the argument's backing array:
\* the heap after the call when the caller passed its own slice (ms...)
ReverseInPlace(heap, ref) == [heap EXCEPT ![ref] = Reverse(heap[ref])]

\* a Use that does not reverse its arguments
UseListNoReverse(m, old) == Concat(m, old)

\* a Use that adds its arguments behind the router's list
UseListBehind(m, old) == Concat(old, Reverse(m))

\* slices.Reverse(m); slices.Concat(m, r.middlewares): the list that results
\* from the arguments m as supplied and the router's list old
UseList(m, old) == Concat(Reverse(m), old)

\* a Use that also writes the new list into the router's old backing array
UseHeapInPlace(heap, ref, m) ==
    Append([heap EXCEPT ![ref] = UseList(m, heap[ref])], UseList(m, heap[ref]))

\* the heap once slices.Concat has built that list from the array at ref:
\* the result is a new backing array, the last of the heap
UseHeap(heap, ref, m) == Append(heap, UseList(m, heap[ref]))

\* the pprof routes RoutePerf registers on the group of DefaultPrefix
PprofTargets ==
    {<<"GET", <<"/">>>>, <<"GET", <<"/", "cmdline">>>>, <<"GET", <<"/", "profile">>>>,
     <<"POST", <<"/", "symbol">>>>, <<"GET", <<"/", "symbol">>>>, <<"GET", <<"/", "trace">>>>,
     <<"GET", <<"/", "allocs">>>>, <<"GET", <<"/", "block">>>>, <<"GET", <<"/", "goroutine">>>>,
     <<"GET", <<"/", "heap">>>>, <<"GET", <<"/", "mutex">>>>, <<"GET", <<"/", "threadcreate">>>>}

RoutePerf(mws) ==
    {[pattern |-> Pattern(t[1], DefaultPrefix, t[2]),
      h |-> withMiddlewares(mws, <<PprofHandler>>)] : t \in PprofTargets}

\* New(): Router{} with nil middlewares, p.Use(Recover), then RoutePerf(&p.Router)
NewMiddlewares == UseList(<<Recover>>, <<>>)

(* ---------------- context ---------------- *)
\* int8 arithmetic: the value of an int8 after adding one
Int8Inc(i) == IF i = 127 THEN -128 ELSE i + 1

NilKeys == [isnil |-> TRUE, kv |-> {}]

\* allocateContext: &Context{}
allocateContext ==
    [Request |-> 0, Writer |-> 0, Params |-> <<>>, handlers |-> <<>>, index |-> 0,
     Keys |-> NilKeys, sameSite |-> 0]

\* a reset that leaves the index of the last request
resetKeepsIndex(c) ==
    [c EXCEPT !.Params = <<>>, !.handlers = <<>>, !.Keys = NilKeys, !.sameSite = 0]

\* Context.reset
reset(c) ==
    [c EXCEPT !.Params = <<>>, !.handlers = <<>>, !.index = -1, !.Keys = NilKeys,
              !.sameSite = 0]

\* Context.IsAborted
IsAborted(c) == c.index >= abortIndex

\* Context.Abort
Abort(c) == [c EXCEPT !.index = abortIndex]

\* Context.Set: the bag is made on the first write
Set(c, key, value) ==
    [c EXCEPT !.Keys = [isnil |-> FALSE,
                        kv |-> {e \in c.Keys.kv : e[1] # key} \cup {<<key, value>>}]]

\* Context.Get: the value stored under key, 0 when there is none
Get(c, key) ==
    IF \E e \in c.Keys.kv : e[1] = key
    THEN (CHOOSE e \in c.Keys.kv : e[1] = key)[2]
    ELSE 0

\* Context.AddParam
AddParam(c, key, value) == [c EXCEPT !.Params = Append(@, <<key, value>>)]

\* Context.SetSameSite
SetSameSite(c, samesite) == [c EXCEPT !.sameSite = samesite]

\* http.ResponseWriter.WriteHeader as Context.Status calls it: the first
\* status written is the one sent, a later call is logged as superfluous
WriteHeader(status, code) == IF status = 0 THEN code ELSE status

(* ---------------- mux ---------------- *)
PatternPath(pt) == SubSeq(pt, 3, Len(pt))

IsPrefix(a, b) == Len(a) <= Len(b) /\ SubSeq(b, 1, Len(a)) = a

\* does the registered pattern match the request's method and path
MuxMatches(pt, method, path) ==
    LET pp == PatternPath(pt)
    IN  /\ pt[1] = method
        /\ IF pp[Len(pp)] = "{$}" THEN path = SubSeq(pp, 1, Len(pp) - 1)
           ELSE IF pp[Len(pp)] = "/" THEN IsPrefix(pp, path)
           ELSE path = pp

\* p.mux.Handler(req): <<"hit", the handler of the most specific pattern>>,
\* <<"redirect", ..>> to path + "/" when only that matches, and <<"", ..>> (the
\* empty pattern: not found, or method not allowed) otherwise
MuxHandler(rts, method, path) ==
    LET cand == {x \in rts : MuxMatches(x.pattern, method, path)}
        slash == {x \in rts : MuxMatches(x.pattern, method, path \o <<"/">>)}
    IN  IF cand # {}
        THEN <<"hit", (CHOOSE x \in cand :
                          \A y \in cand : Len(y.pattern) <= Len(x.pattern)).h>>
        ELSE IF path[Len(path)] # "/" /\ slash # {} THEN <<"redirect", <<>>>>
        ELSE <<"", <<>>>>

(* ---------------- requests ---------------- *)
Reqs == 1..MaxReqs

\* what a request asks for: "*" is the wildcard-only RequestURI
Targets ==
    {<<"GET", <<"/", "1", "/", "dir", "/">>>>, <<"GET", <<"/", "1", "/", "dir">>>>,
     <<"GET", <<"/", "2", "/", "dir", "/">>>>, <<"POST", <<"/", "1", "/", "dir", "/">>>>,
     <<"*", <<"*">>>>}

IdleReq ==
    [pc |-> "idle", target |-> <<"", <<>>>>, res |-> "", h |-> <<>>, ctx |-> 0,
     depth |-> 0, ret |-> FALSE, status |-> 0,
     gets |-> 0, puts |-> 0, seen |-> -1, abortAt |-> 0, late |-> FALSE,
     panicked |-> FALSE, before |-> 0, unauth |-> 0, lateU |-> FALSE]

\* a program like that of part_001: g := p.Group("/1", ms...) with the
\* caller's slice ms = [A, B], then g.GET("/dir/", hello)
ServeGroupMws == UseList(<<"A", "B">>, NewMiddlewares)

ServeRoutes ==
    RoutePerf(NewMiddlewares) \cup
    {[pattern |-> Pattern("GET", <<"/", "1">>, <<"/", "dir", "/">>),
      h |-> withMiddlewares(ServeGroupMws, <<"hello">>)]}

\* the context an earlier request, now over, has put back into the pool: it
\* had called Set, AddParam, SetSameSite and AbortWithStatus on it
LeftBehind ==
    Abort(SetSameSite(AddParam(Set([reset(allocateContext) EXCEPT !.Request = -1,
                                                                  !.Writer = -1],
                                   "k", -1), "id", -1), 2))

\* no context is looked at in memory, and no goroutine shares one
NoObjects == objs = <<>> /\ bags = <<>> /\ parr = <<>> /\ hist = <<>>

Unlocked == [w |-> 0, r |-> {}]

NoGoroutines == gor = <<>> /\ mu = Unlocked

\* an http.Server: its Handler ("plum" is the Plum p, "" is nil), whether it
\* is serving, and which handlers have answered the requests it accepted
Server(handler) == [Handler |-> handler, state |-> "new", answered |-> {}]

NoCall == [n |-> 0, call |-> "", arg |-> 0, val |-> ""]

\* New() leaves Plum.srv nil
NotStarted == srv = 0 /\ servers = <<>> /\ ret = NoCall

\* p.Run(addr) is serving: the server of Run's own making, with Handler: p
Started ==
    /\ srv = 1
    /\ servers = <<[Server("plum") EXCEPT !.state = "serving"]>>
    /\ ret = [n |-> 1, call |-> "Run", arg |-> -1, val |-> "serving"]

\* the server before it has served a request
InitIdle ==
    /\ pool = {}
    /\ ctxs = <<>>
    /\ reqs = [r \in Reqs |-> IdleReq]
    /\ nops = 0

\* the server with the requests of the model about to arrive
InitServe ==
    /\ pool = {1}
    /\ ctxs = <<LeftBehind>>
    /\ reqs = [r \in Reqs |-> IdleReq]
    /\ nops = 0

\* the router and the mux once that program has registered its route
Registered ==
    /\ arr = << <<"B", "A">>, NewMiddlewares, ServeGroupMws >>
    /\ ms = 1
    /\ routers = << [scope |-> <<>>, middlewares |-> 2],
                    [scope |-> DefaultPrefix, middlewares |-> 2],
                    [scope |-> <<"/", "1">>, middlewares |-> 3] >>
    /\ routes = ServeRoutes
    /\ order = << [inherited |-> <<>>, group |-> <<>>, used |-> <<Recover>>, rel |-> <<>>],
                  [inherited |-> <<Recover>>, group |-> <<>>, used |-> <<>>,
                   rel |-> <<DefaultPrefix>>],
                  [inherited |-> <<Recover>>, group |-> <<"A", "B">>, used |-> <<>>,
                   rel |-> << <<"/", "1">> >>] >>
    /\ regs = {[pattern |-> Pattern("GET", <<"/", "1">>, <<"/", "dir", "/">>), router |-> 3,
                method |-> "GET", route |-> <<"/", "dir", "/">>,
                handler |-> "hello", supplied |-> <<Recover, "A", "B">>]}

\* the program has registered its routes and the server is serving
Init == Registered /\ InitServe /\ NoObjects /\ NoGoroutines /\ Started

InitRouter ==
    /\ arr = << <<"A", "B">>, NewMiddlewares >>
    /\ ms = 1
    /\ routers = << [scope |-> <<>>, middlewares |-> 2],
                    [scope |-> DefaultPrefix, middlewares |-> 2] >>
    /\ routes = RoutePerf(NewMiddlewares)
    /\ order = << [inherited |-> <<>>, group |-> <<>>, used |-> <<Recover>>, rel |-> <<>>],
                  [inherited |-> <<Recover>>, group |-> <<>>, used |-> <<>>,
                   rel |-> <<DefaultPrefix>>] >>
    /\ regs = {}
    /\ InitIdle
    /\ NoObjects /\ NoGoroutines /\ NotStarted

Supplied(o) == o.inherited \o o.group \o o.used

\* Router.Group(relativePath, m...): lit is the argument list written at the
\* call, viaSlice says the caller passed its own slice ms... instead
Group(r, relativePath, lit, viaSlice) ==
    LET m == IF viaSlice THEN arr[ms] ELSE lit
        heap == IF viaSlice /\ Len(m) > 0 THEN ReverseInPlace(arr, ms) ELSE arr
        parent == heap[routers[r].middlewares]
    IN  /\ Len(routers) < MaxRouters
        /\ Len(m) + Len(parent) <= MaxMws
        /\ Len(m) > 0 => Len(arr) < MaxArrays
        /\ IF Len(m) > 0
           THEN /\ arr' = UseHeap(heap, routers[r].middlewares, m)
                /\ routers' = Append(routers, [scope |-> routers[r].scope \o relativePath,
                                               middlewares |-> Len(arr) + 1])
           ELSE /\ arr' = arr
                /\ routers' = Append(routers, [scope |-> routers[r].scope \o relativePath,
                                               middlewares |-> routers[r].middlewares])
        /\ order' = Append(order, [inherited |-> Supplied(order[r]), group |-> m,
                                   used |-> <<>>,
                                   rel |-> Append(order[r].rel, relativePath)])
        /\ UNCHANGED <<ms, routes, regs, pool, ctxs, reqs, nops>>

\* Router.Use(m...)
Use(r, lit, viaSlice) ==
    LET m == IF viaSlice THEN arr[ms] ELSE lit
        heap == IF viaSlice THEN ReverseInPlace(arr, ms) ELSE arr
        old == heap[routers[r].middlewares]
    IN  /\ Len(m) + Len(old) <= MaxMws
        /\ Len(arr) < MaxArrays
        /\ arr' = UseHeap(heap, routers[r].middlewares, m)
        /\ routers' = [routers EXCEPT ![r].middlewares = Len(arr) + 1]
        /\ order' = [order EXCEPT ![r].used = @ \o m]
        /\ UNCHANGED <<ms, routes, regs, pool, ctxs, reqs, nops>>

\* Router.Handle(method, route, handler); mux.Handle panics on a pattern that
\* is registered already, which ends the registering program
Handle(r, method, route, handler) ==
    LET pt == Pattern(method, routers[r].scope, route)
    IN  /\ Cardinality(regs) < MaxRoutes
        /\ \A x \in routes : x.pattern # pt
        /\ routes' = routes \cup
               {[pattern |-> pt,
                 h |-> withMiddlewares(arr[routers[r].middlewares], <<handler>>)]}
        /\ regs' = regs \cup {[pattern |-> pt, router |-> r, method |-> method,
                                route |-> route, handler |-> handler,
                                supplied |-> Supplied(order[r])]}
        /\ UNCHANGED <<arr, ms, routers, order, pool, ctxs, reqs, nops>>

\* the routers the user's code holds: RoutePerf keeps its group to itself
UserRouters == (1..Len(routers)) \ {2}

NextRouter ==
    \/ \E r \in UserRouters, p \in GroupPaths, lit \in Literals \cup {<<>>} :
           Group(r, p, lit, FALSE) /\ UNCHANGED <<cvars, lvars, gvars>>
    \/ \E r \in UserRouters, p \in GroupPaths :
           Group(r, p, <<>>, TRUE) /\ UNCHANGED <<cvars, lvars, gvars>>
    \/ \E r \in UserRouters, lit \in Literals :
           Use(r, lit, FALSE) /\ UNCHANGED <<cvars, lvars, gvars>>
    \/ \E r \in UserRouters : Use(r, <<>>, TRUE) /\ UNCHANGED <<cvars, lvars, gvars>>
    \/ \E r \in UserRouters, mt \in Methods, p \in RoutePaths, h \in UserHandlers :
           Handle(r, mt, p, h) /\ UNCHANGED <<cvars, lvars, gvars>>

SpecRouter == InitRouter /\ [][NextRouter]_vars

(* ---------------- serving ---------------- *)
\* a pool that hands a context out and keeps it
PoolGetKeeps(pl, c) == pl

\* sync.Pool.Get taking the pooled context c, and sync.Pool.Put
PoolGet(pl, c) == pl \ {c}
PoolPut(pl, c) == pl \cup {c}

\* the machine state the context methods act on: the contexts and the requests
\* (a context writes to the response of the request its Writer belongs to)
Machine == [cx |-> ctxs, rq |-> reqs]

\* Context.Status: c.Writer.WriteHeader(code)
Status(st, c, code) ==
    [st EXCEPT !.rq[st.cx[c].Writer].status = WriteHeader(@, code)]

\* an AbortWithStatus that writes the status and does not abort
AbortWithStatusNoAbort(st, c, code) == Status(st, c, code)

\* Context.AbortWithStatus: c.Status(code), then c.Abort()
AbortWithStatus(st, c, code) ==
    LET written == Status(st, c, code)
    IN  [written EXCEPT !.cx[c] = Abort(@)]

\* Context.Next: c.index++, then the loop over c.handlers, which nothing
\* ever assigns: the loop body runs only for a negative index, and handlers[index]
\* then panics with an index out of range.  TRUE when Next panics.
NextPanics(c) == Int8Inc(c.index) < Len(c.handlers)
Next_(c) == [c EXCEPT !.index = Int8Inc(@)]

\* a Recover closure whose deferred function does not call recover()
RecoverFrameNone(h, k) == 0

\* the frame of the closest enclosing Recover closure below frame k, 0 if none
RecoverFrame(h, k) ==
    IF \E j \in 1..(k - 1) : h[j] = Recover
    THEN CHOOSE j \in 1..(k - 1) : h[j] = Recover /\ \A i \in (j + 1)..(k - 1) : h[i] # Recover
    ELSE 0

\* the request after its frame k has returned to its caller; the caller of
\* frame 1 is RouterHandler.ServeHTTP, which goes on to pool.Put
ReturnTo(q, k) ==
    [q EXCEPT !.depth = k - 1, !.ret = TRUE,
              !.pc = IF k = 1 THEN "release" ELSE "chain"]

\* a panic raised in the running frame of request r, the machine being st:
\* the deferred function of the closest Recover calls AbortWithStatus(500) and
\* that closure returns; with no Recover below, the panic leaves
\* RouterHandler.ServeHTTP before pool.Put and ends in net/http's connection
Recovered(st, r) ==
    LET q == st.rq[r]
        j == RecoverFrame(q.h, q.depth)
        marked == [st EXCEPT !.rq[r].panicked = TRUE, !.rq[r].before = q.status]
    IN  IF j = 0
        THEN [marked EXCEPT !.rq[r].pc = "crashed"]
        ELSE LET a == AbortWithStatus(marked, q.ctx, StatusInternalServerError)
             IN  [a EXCEPT !.rq[r] = ReturnTo(@, j)]

InChain(r) == reqs[r].pc = "chain"
InUserCode(r) == InChain(r) /\ reqs[r].h[reqs[r].depth] # Recover
CanOp(r) == InUserCode(r) /\ nops < MaxOps

Commit(st) == ctxs' = st.cx /\ reqs' = st.rq

\* RouterHandler.ServeHTTP up to r.h(ctx), for request r given context c of
\* the contexts cx: ctx.Writer = w; ctx.Request = req; ctx.reset(); and the
\* outermost closure of the chain is entered
RouterHandlerEnter(q, h, c) ==
    [q EXCEPT !.pc = "chain", !.res = "hit", !.h = h, !.ctx = c, !.gets = @ + 1,
              !.depth = 1, !.ret = FALSE]

Populate(cx, c, r) == [cx EXCEPT ![c] = reset([@ EXCEPT !.Writer = r, !.Request = r])]

\* Plum.ServeHTTP answering by itself: the wildcard target, the empty pattern
\* of a resolution miss, and the mux's own redirect handler
PlumServeHTTP(r, t) ==
    /\ reqs[r].pc = "idle"
    /\ \A o \in Reqs : o < r => reqs[o].pc # "idle"
    /\ LET q == reqs[r]
           m == MuxHandler(routes, t[1], t[2])
       IN  /\ t[1] = "*" \/ m[1] # "hit"
           /\ reqs' = [reqs EXCEPT ![r] =
               IF t[1] = "*"
               THEN [q EXCEPT !.pc = "done", !.res = "bad",
                              !.status = WriteHeader(@, StatusBadRequest)]
               ELSE IF m[1] = ""
               THEN [q EXCEPT !.pc = "done", !.res = "miss"]
               ELSE [q EXCEPT !.pc = "done", !.res = "redirect",
                              !.status = WriteHeader(@, 301)]]   \* http.StatusMovedPermanently
    /\ UNCHANGED <<pool, ctxs>>

\* Plum.ServeHTTP handing the request to the RouterHandler the mux resolved,
\* and RouterHandler.ServeHTTP up to r.h(ctx): r.engine.pool.Get() hands out a
\* pooled context, or a new one from pool.New
RouterHandlerServeHTTP(r, t) ==
    /\ reqs[r].pc = "idle"
    /\ \A o \in Reqs : o < r => reqs[o].pc # "idle"
    /\ t[1] # "*"
    /\ LET q == [reqs[r] EXCEPT !.target = t]
           m == MuxHandler(routes, t[1], t[2])
       IN  /\ m[1] = "hit"
           /\ \/ \E c \in pool :
                    /\ pool' = PoolGet(pool, c)
                    /\ ctxs' = Populate(ctxs, c, r)
                    /\ reqs' = [reqs EXCEPT ![r] = RouterHandlerEnter(q, m[2], c)]
              \/ /\ pool' = pool
                 /\ ctxs' = Populate(Append(ctxs, allocateContext), Len(ctxs) + 1, r)
                 /\ reqs' = [reqs EXCEPT ![r] = RouterHandlerEnter(q, m[2], Len(ctxs) + 1)]

\* what is left of a request once RouterHandler.ServeHTTP has returned: its
\* response, and for the record which context served it and how
Finished(q) ==
    [IdleReq EXCEPT !.pc = "done", !.res = q.res, !.status = q.status, !.ctx = q.ctx,
                    !.gets = q.gets, !.puts = q.puts + 1, !.abortAt = q.abortAt,
                    !.panicked = q.panicked]

\* RouterHandler.ServeHTTP: r.engine.pool.Put(ctx), and the return
RouterHandlerPut(r) ==
    /\ reqs[r].pc = "release"
    /\ pool' = PoolPut(pool, reqs[r].ctx)
    /\ reqs' = [reqs EXCEPT ![r] = Finished(@)]
    /\ UNCHANGED ctxs

\* the closure Recover returns: defer ...; handler(ctx); return
RecoverClosure(r) ==
    /\ InChain(r)
    /\ reqs[r].h[reqs[r].depth] = Recover
    /\ reqs' = [reqs EXCEPT ![r] =
           IF @.ret THEN ReturnTo(@, @.depth)
           ELSE [@ EXCEPT !.depth = @ + 1, !.ret = FALSE]]
    /\ UNCHANGED <<pool, ctxs>>

\* a middleware calls the handler it wraps
CallHandler(r) ==
    /\ InUserCode(r)
    /\ ~reqs[r].ret
    /\ reqs[r].depth < Len(reqs[r].h)
    /\ reqs' = [reqs EXCEPT ![r].depth = @ + 1,
                            ![r].late = @ \/ reqs[r].abortAt # 0,
                            ![r].lateU = @ \/ reqs[r].unauth # 0]
    /\ UNCHANGED <<pool, ctxs>>

\* a middleware or handler returns
Return(r) ==
    /\ InUserCode(r)
    /\ reqs' = [reqs EXCEPT ![r] = ReturnTo(@, @.depth)]
    /\ UNCHANGED <<pool, ctxs>>

\* a middleware or handler panics
Panic(r) ==
    /\ InUserCode(r)
    /\ Commit(Recovered(Machine, r))
    /\ UNCHANGED pool

CallSet(r) ==
    /\ CanOp(r)
    /\ ctxs' = [ctxs EXCEPT ![reqs[r].ctx] = Set(@, "k", r)]
    /\ reqs' = reqs
    /\ UNCHANGED pool

CallGet(r) ==
    /\ CanOp(r)
    /\ reqs' = [reqs EXCEPT ![r].seen = Get(ctxs[reqs[r].ctx], "k")]
    /\ UNCHANGED <<pool, ctxs>>

CallAddParam(r) ==
    /\ CanOp(r)
    /\ ctxs' = [ctxs EXCEPT ![reqs[r].ctx] = AddParam(@, "id", r)]
    /\ reqs' = reqs
    /\ UNCHANGED pool

CallSetSameSite(r) ==
    /\ CanOp(r)
    /\ ctxs' = [ctxs EXCEPT ![reqs[r].ctx] = SetSameSite(@, 2)]   \* http.SameSiteLaxMode
    /\ reqs' = reqs
    /\ UNCHANGED pool

CallNext(r) ==
    /\ CanOp(r)
    /\ LET c == reqs[r].ctx
           st == [Machine EXCEPT !.cx[c] = Next_(@)]
       IN  Commit(IF NextPanics(ctxs[c]) THEN Recovered(st, r) ELSE st)
    /\ UNCHANGED pool

CallAbort(r) ==
    /\ CanOp(r)
    /\ ctxs' = [ctxs EXCEPT ![reqs[r].ctx] = Abort(@)]
    /\ reqs' = [reqs EXCEPT ![r].abortAt = IF @ = 0 THEN reqs[r].depth ELSE @]
    /\ UNCHANGED pool

CallAbortWithStatus(r) ==
    /\ CanOp(r)
    /\ LET st == [Machine EXCEPT
                      !.rq[r].abortAt = IF @ = 0 THEN reqs[r].depth ELSE @,
                      !.rq[r].unauth = IF @ = 0 THEN reqs[r].depth ELSE @]
       IN  Commit(AbortWithStatus(st, reqs[r].ctx, StatusUnauthorized))
    /\ UNCHANGED pool

CallStatus(r) ==
    /\ CanOp(r)
    /\ Commit(Status(Machine, reqs[r].ctx, StatusOK))
    /\ UNCHANGED pool

Next ==
    \/ \E r \in Reqs, t \in Targets : PlumServeHTTP(r, t) /\ UNCHANGED <<rvars, nops, cvars, lvars, gvars>>
    \/ \E r \in Reqs, t \in Targets : RouterHandlerServeHTTP(r, t) /\ UNCHANGED <<rvars, nops, cvars, lvars, gvars>>
    \/ \E r \in Reqs : RouterHandlerPut(r) /\ UNCHANGED <<rvars, nops, cvars, lvars, gvars>>
    \/ \E r \in Reqs : RecoverClosure(r) /\ UNCHANGED <<rvars, nops, cvars, lvars, gvars>>
    \/ \E r \in Reqs : CallHandler(r) /\ UNCHANGED <<rvars, nops, cvars, lvars, gvars>>
    \/ \E r \in Reqs : Return(r) /\ UNCHANGED <<rvars, nops, cvars, lvars, gvars>>
    \/ \E r \in Reqs : Panic(r) /\ UNCHANGED <<rvars, nops, cvars, lvars, gvars>>
    \/ \E r \in Reqs : CallSet(r) /\ nops' = nops + 1 /\ UNCHANGED <<rvars, cvars, lvars, gvars>>
    \/ \E r \in Reqs : CallGet(r) /\ nops' = nops + 1 /\ UNCHANGED <<rvars, cvars, lvars, gvars>>
    \/ \E r \in Reqs : CallAddParam(r) /\ nops' = nops + 1 /\ UNCHANGED <<rvars, cvars, lvars, gvars>>
    \/ \E r \in Reqs : CallSetSameSite(r) /\ nops' = nops + 1 /\ UNCHANGED <<rvars, cvars, lvars, gvars>>
    \/ \E r \in Reqs : CallNext(r) /\ nops' = nops + 1 /\ UNCHANGED <<rvars, cvars, lvars, gvars>>
    \/ \E r \in Reqs : CallAbort(r) /\ nops' = nops + 1 /\ UNCHANGED <<rvars, cvars, lvars, gvars>>
    \/ \E r \in Reqs : CallAbortWithStatus(r) /\ nops' = nops + 1 /\ UNCHANGED <<rvars, cvars, lvars, gvars>>
    \/ \E r \in Reqs : CallStatus(r) /\ nops' = nops + 1 /\ UNCHANGED <<rvars, cvars, lvars, gvars>>

Spec == Init /\ [][Next]_vars

(* ---------------- a context in memory ---------------- *)
\* Context.Keys is a map and Context.Params a slice: objs holds Context
\* objects whose Keys is a reference into bags (0 is the nil map) and whose
\* Params is a slice, a reference into parr (0 is nil) with a length; the
\* capacity of the slice is the length of the array it refers to.
Mem == [objs |-> objs, bags |-> bags, parr |-> parr]

BagKeys == {"k"}
ZeroParam == <<"", 0>>                 \* Param{}
NilSlice == [ref |-> 0, len |-> 0]

\* cap(s)
Cap(h, s) == IF s.ref = 0 THEN 0 ELSE Len(h.parr[s.ref])

\* Context.Set: c.Keys = make(map[string]any) when it is nil; c.Keys[key] = value
MemSet(h, i, key, value) ==
    LET c == h.objs[i]
        made == IF c.Keys = 0 THEN Append(h.bags, {}) ELSE h.bags
        ref == IF c.Keys = 0 THEN Len(h.bags) + 1 ELSE c.Keys
    IN  [h EXCEPT !.bags = [made EXCEPT ![ref] = {e \in @ : e[1] # key} \cup {<<key, value>>}],
                  !.objs[i].Keys = ref]

\* Context.AddParam: c.Params = append(c.Params, Param{key, value}); append
\* writes behind the length while the capacity allows, and moves the elements
\* to a new array of twice the capacity otherwise
MemAddParam(h, i, key, value) ==
    LET s == h.objs[i].Params
        cap == Cap(h, s)
        newcap == IF cap = 0 THEN 1 ELSE 2 * cap
        grown == [j \in 1..newcap |->
                     IF j <= s.len THEN h.parr[s.ref][j]
                     ELSE IF j = s.len + 1 THEN <<key, value>> ELSE ZeroParam]
    IN  IF s.len < cap
        THEN [h EXCEPT !.parr[s.ref][s.len + 1] = <<key, value>>,
                       !.objs[i].Params.len = s.len + 1]
        ELSE [h EXCEPT !.parr = Append(@, grown),
                       !.objs[i].Params = [ref |-> Len(h.parr) + 1, len |-> s.len + 1]]

\* RouterHandler.ServeHTTP for the request req on a context it got from the
\* pool: ctx.Writer = w; ctx.Request = req; ctx.reset().  c.Params[:0] keeps
\* the array, c.Keys = nil drops the map
MemReset(h, i, req) ==
    [h EXCEPT !.objs[i] = [@ EXCEPT !.Writer = req, !.Request = req, !.Params.len = 0,
                                    !.handlers = <<>>, !.index = -1, !.Keys = 0,
                                    !.sameSite = 0]]

\* the elements of Keys and of Params as the methods of object i see them
Bag(h, i) == IF h.objs[i].Keys = 0 THEN {} ELSE h.bags[h.objs[i].Keys]
ParamList(h, i) ==
    LET s == h.objs[i].Params
    IN  IF s.ref = 0 THEN <<>> ELSE SubSeq(h.parr[s.ref], 1, s.len)

\* a Copy whose Keys is the map of the original
CopySharingKeys(h, i) ==
    LET c == h.objs[i]
        cp == [Request |-> c.Request, Writer |-> 0,
               Params |-> [ref |-> Len(h.parr) + 1, len |-> c.Params.len],
               handlers |-> <<>>, index |-> abortIndex, Keys |-> c.Keys, sameSite |-> 0]
    IN  [h EXCEPT !.objs = Append(@, cp), !.parr = Append(@, ParamList(h, i))]

\* Context.Copy: a new Context with the Request of c and index abortIndex, a
\* new map filled from c.Keys, and a new array of len(c.Params) elements
\* filled from c.Params
Copy(h, i) ==
    LET c == h.objs[i]
        cp == [Request |-> c.Request, Writer |-> 0,
               Params |-> [ref |-> Len(h.parr) + 1, len |-> c.Params.len],
               handlers |-> <<>>, index |-> abortIndex, Keys |-> Len(h.bags) + 1,
               sameSite |-> 0]
    IN  [h EXCEPT !.objs = Append(@, cp), !.bags = Append(@, Bag(h, i)),
                  !.parr = Append(@, ParamList(h, i))]

Store(h) == objs' = h.objs /\ bags' = h.bags /\ parr' = h.parr

\* what the calls made on one object by themselves amount to: the request it
\* is for, its index, the entries stored and the parameters added through it,
\* whether Abort was called on it since its reset, and the object it is a copy of
Own(req) == [of |-> 0, Request |-> req, index |-> -1, bag |-> {}, params |-> <<>>,
             aborted |-> FALSE]

\* the handler of request 1 has the context the dispatcher handed it
ContextOfRequest ==
    /\ objs = << [allocateContext EXCEPT !.Request = 1, !.Writer = 1, !.index = -1,
                                         !.Keys = 0, !.Params = NilSlice] >>
    /\ bags = <<>>
    /\ parr = <<>>
    /\ hist = << Own(1) >>

InitContext == ContextOfRequest /\ Registered /\ InitIdle /\ NoGoroutines /\ Started

Objs == 1..Len(objs)

\* c.Set(key, value) on object i; the values stored are told apart by the
\* number of the call
DoSet(i, key) ==
    /\ nops < MaxCalls
    /\ Store(MemSet(Mem, i, key, nops + 1))
    /\ hist' = [hist EXCEPT ![i].bag = {e \in @ : e[1] # key} \cup {<<key, nops + 1>>}]

\* c.AddParam("id", value) on object i
DoAddParam(i) ==
    /\ nops < MaxCalls
    /\ Store(MemAddParam(Mem, i, "id", nops + 1))
    /\ hist' = [hist EXCEPT ![i].params = Append(@, <<"id", nops + 1>>)]

\* cp := c.Copy() of object i
DoCopy(i) ==
    /\ nops < MaxCalls
    /\ Len(objs) < MaxObjs
    /\ Store(Copy(Mem, i))
    /\ hist' = Append(hist, [of |-> i, Request |-> hist[i].Request, index |-> abortIndex,
                             bag |-> hist[i].bag, params |-> hist[i].params,
                             aborted |-> FALSE])

\* c.Next() in a handler of the request: when it panics, the deferred
\* function of Recover calls AbortWithStatus, so Abort
DoNext ==
    LET c == Next_(objs[1])
        p == NextPanics(objs[1])
    IN  /\ objs' = [objs EXCEPT ![1] = IF p THEN Abort(c) ELSE c]
        /\ hist' = [hist EXCEPT ![1].index = objs'[1].index,
                                ![1].aborted = @ \/ p]
        /\ UNCHANGED <<bags, parr>>

\* c.Abort() in a handler of the request, by itself or as the last or first
\* statement of AbortWithStatus and AbortWithStatusJSON
DoAbort ==
    /\ objs' = [objs EXCEPT ![1] = Abort(@)]
    /\ hist' = [hist EXCEPT ![1].index = objs'[1].index, ![1].aborted = TRUE]
    /\ UNCHANGED <<bags, parr>>

\* the request is over and the dispatcher gives the context to the next one
DoReset ==
    /\ objs[1].Request < MaxServed
    /\ Store(MemReset(Mem, 1, objs[1].Request + 1))
    /\ hist' = [hist EXCEPT ![1] = Own(objs[1].Request + 1)]

Others == <<rvars, pool, ctxs, reqs, lvars, gvars>>

NextContext ==
    \/ \E i \in Objs, key \in BagKeys : DoSet(i, key) /\ nops' = nops + 1 /\ UNCHANGED Others
    \/ \E i \in Objs : DoAddParam(i) /\ nops' = nops + 1 /\ UNCHANGED Others
    \/ \E i \in Objs : DoCopy(i) /\ nops' = nops + 1 /\ UNCHANGED Others
    \/ DoNext /\ nops < MaxCalls /\ nops' = nops + 1 /\ UNCHANGED Others
    \/ DoAbort /\ nops < MaxCalls /\ nops' = nops + 1 /\ UNCHANGED Others
    \/ DoReset /\ UNCHANGED <<nops, Others>>

SpecContext == InitContext /\ [][NextContext]_vars

\* the chain index alone: any number of Next and Abort calls and resets
NextIndex ==
    \/ DoNext /\ UNCHANGED <<nops, Others>>
    \/ DoAbort /\ UNCHANGED <<nops, Others>>
    \/ DoReset /\ UNCHANGED <<nops, Others>>

SpecIndex == InitContext /\ [][NextIndex]_vars

(* ---------------- goroutines sharing a context ---------------- *)
\* The handler hands its context to goroutines, which call Set, Get and Copy
\* on it.  A call is the sequence of its lock operations and of its accesses
\* to Keys (the field and the map behind it); an access takes time, from the
\* step that begins it to the step that ends it and has its effect.
Gors == 1..MaxGors

IdleGo == [pc |-> "idle", call |-> "", acc |-> "", cKeys |-> 0, val |-> 0, seen |-> 0]

InitLock ==
    /\ ContextOfRequest
    /\ gor = [g \in Gors |-> IdleGo]
    /\ mu = Unlocked
    /\ Registered /\ InitIdle /\ Started

\* sync.RWMutex: Lock waits for the writer and the readers to be gone, RLock
\* for the writer
CanLock(m) == m.w = 0 /\ m.r = {}
CanRLock(m) == m.w = 0

\* the first statement of each call: c.mu.Lock() in Set, c.mu.RLock() in
\* Get, and cKeys := c.Keys with make(map[string]any, len(cKeys)) in Copy
FirstPc(call) == IF call = "Set" THEN "Lock" ELSE IF call = "Get" THEN "RLock" ELSE "keys"

\* a goroutine starts a call on the context
GoCall(g, call) ==
    /\ gor[g].pc = "idle"
    /\ nops < MaxCalls
    /\ call = "Copy" => Len(objs) < MaxObjs
    /\ gor' = [gor EXCEPT ![g] = [IdleGo EXCEPT !.pc = FirstPc(call), !.call = call,
                                                !.val = nops + 1]]
    /\ nops' = nops + 1
    /\ UNCHANGED <<mu, cvars>>

\* c.mu.Lock() of Set
Lock(g) ==
    /\ gor[g].pc = "Lock"
    /\ CanLock(mu)
    /\ mu' = [mu EXCEPT !.w = g]
    /\ gor' = [gor EXCEPT ![g].pc = "store"]
    /\ UNCHANGED <<nops, cvars>>

\* c.mu.RLock() of Get and of Copy
RLock(g) ==
    /\ gor[g].pc = "RLock"
    /\ CanRLock(mu)
    /\ mu' = [mu EXCEPT !.r = @ \cup {g}]
    /\ gor' = [gor EXCEPT ![g].pc = IF gor[g].call = "Get" THEN "load" ELSE "range"]
    /\ UNCHANGED <<nops, cvars>>

\* the kind of access to Keys each statement makes
AccessAt(pc) == IF pc = "store" THEN "write" ELSE "read"

\* an access to Keys begins
Begin(g) ==
    /\ gor[g].pc \in {"store", "load", "keys", "range"}
    /\ gor[g].acc = ""
    /\ gor' = [gor EXCEPT ![g].acc = AccessAt(gor[g].pc)]
    /\ UNCHANGED <<nops, mu, cvars>>

\* Set: if c.Keys == nil { c.Keys = make(...) }; c.Keys[key] = value
EndStore(g) ==
    /\ gor[g].pc = "store" /\ gor[g].acc # ""
    /\ Store(MemSet(Mem, 1, "k", gor[g].val))
    /\ hist' = [hist EXCEPT ![1].bag = {<<"k", gor[g].val>>}]
    /\ gor' = [gor EXCEPT ![g].acc = "", ![g].pc = "Unlock"]
    /\ UNCHANGED <<nops, mu>>

\* Get: value, exists = c.Keys[key]
EndLoad(g) ==
    /\ gor[g].pc = "load" /\ gor[g].acc # ""
    /\ gor' = [gor EXCEPT ![g].acc = "", ![g].pc = "RUnlock",
                          ![g].seen = IF \E e \in Bag(Mem, 1) : e[1] = "k"
                                      THEN (CHOOSE e \in Bag(Mem, 1) : e[1] = "k")[2]
                                      ELSE 0]
    /\ UNCHANGED <<nops, mu, cvars>>

\* Copy: cKeys := c.Keys; cp.Keys = make(map[string]any, len(cKeys))
EndKeys(g) ==
    /\ gor[g].pc = "keys" /\ gor[g].acc # ""
    /\ gor' = [gor EXCEPT ![g].acc = "", ![g].pc = "RLock", ![g].cKeys = objs[1].Keys]
    /\ UNCHANGED <<nops, mu, cvars>>

\* Copy: for k, v := range cKeys { cp.Keys[k] = v }, and with it the rest of
\* the new object: the Request, the index and the parameters
EndRange(g) ==
    LET c == objs[1]
        cp == [Request |-> c.Request, Writer |-> 0,
               Params |-> [ref |-> Len(parr) + 1, len |-> c.Params.len],
               handlers |-> <<>>, index |-> abortIndex, Keys |-> Len(bags) + 1,
               sameSite |-> 0]
        copied == IF gor[g].cKeys = 0 THEN {} ELSE bags[gor[g].cKeys]
    IN  /\ gor[g].pc = "range" /\ gor[g].acc # ""
        /\ objs' = Append(objs, cp)
        /\ bags' = Append(bags, copied)
        /\ parr' = Append(parr, ParamList(Mem, 1))
        /\ hist' = Append(hist, [Own(c.Request) EXCEPT !.of = 1, !.index = abortIndex,
                                                       !.bag = copied])
        /\ gor' = [gor EXCEPT ![g].acc = "", ![g].pc = "RUnlock"]
        /\ UNCHANGED <<nops, mu>>

\* c.mu.Unlock() of Set, and the return
Unlock(g) ==
    /\ gor[g].pc = "Unlock"
    /\ mu' = [mu EXCEPT !.w = 0]
    /\ gor' = [gor EXCEPT ![g].pc = "idle"]
    /\ UNCHANGED <<nops, cvars>>

\* c.mu.RUnlock() of Get and of Copy, and the return
RUnlock(g) ==
    /\ gor[g].pc = "RUnlock"
    /\ mu' = [mu EXCEPT !.r = @ \ {g}]
    /\ gor' = [gor EXCEPT ![g].pc = "idle"]
    /\ UNCHANGED <<nops, cvars>>

Apart == <<rvars, pool, ctxs, reqs, lvars>>

NextLock ==
    \/ \E g \in Gors, call \in {"Set", "Get", "Copy"} : GoCall(g, call) /\ UNCHANGED Apart
    \/ \E g \in Gors : Lock(g) /\ UNCHANGED Apart
    \/ \E g \in Gors : RLock(g) /\ UNCHANGED Apart
    \/ \E g \in Gors : Begin(g) /\ UNCHANGED Apart
    \/ \E g \in Gors : EndStore(g) /\ UNCHANGED Apart
    \/ \E g \in Gors : EndLoad(g) /\ UNCHANGED Apart
    \/ \E g \in Gors : EndKeys(g) /\ UNCHANGED Apart
    \/ \E g \in Gors : EndRange(g) /\ UNCHANGED Apart
    \/ \E g \in Gors : Unlock(g) /\ UNCHANGED Apart
    \/ \E g \in Gors : RUnlock(g) /\ UNCHANGED Apart

SpecLock == InitLock /\ [][NextLock]_vars

(* ---------------- lifecycle ---------------- *)
\* the program holds two servers of its own making, one with no Handler (the
\* http.DefaultServeMux then answers) and one with a Handler of its own
CallerServers == <<Server(""), Server("other")>>
Callers == 1..Len(CallerServers)

\* what a server argument can be: -1 none given, 0 a nil *http.Server, or a
\* server of the caller's
NoServer == "plum: no server"          \* errors.New("plum: no server")

Life == [srv |-> srv, servers |-> servers]

\* srv.ListenAndServe, srv.ListenAndServeTLS: a server that was shut down
\* returns ErrServerClosed, one that is serving holds the address, any other
\* starts serving and the call blocks; on a nil server the call panics
Listen(l, listening) ==
    IF l.srv = 0 THEN [l |-> l, val |-> "panic"]
    ELSE IF l.servers[l.srv].state = "closed" THEN [l |-> l, val |-> "ErrServerClosed"]
    ELSE IF l.servers[l.srv].state = "serving" /\ listening
         THEN [l |-> l, val |-> "listen error"]
    ELSE [l |-> [l EXCEPT !.servers[l.srv].state = "serving"], val |-> "serving"]

\* Plum.Run and Plum.RunTLS: p.srv = &http.Server{Handler: p, ...}; with a
\* server argument p.srv = server[0]; then p.srv.ListenAndServe()
PlumRun(l, server) ==
    LET made == [l EXCEPT !.servers = Append(@, Server("plum")),
                          !.srv = Len(l.servers) + 1]
        given == IF server = -1 THEN made ELSE [made EXCEPT !.srv = server]
    IN  Listen(given, TRUE)

\* a RunServer that installs whatever it is given
PlumRunServerUnchecked(l, server) ==
    Listen([l EXCEPT !.srv = server], FALSE)

\* Plum.RunServer
PlumRunServer(l, server) ==
    IF server = 0 THEN [l |-> l, val |-> NoServer]
    ELSE Listen([l EXCEPT !.servers[server].Handler = "plum", !.srv = server], FALSE)

\* Plum.Shutdown; http.Server.Shutdown closes the listeners and returns nil
PlumShutdown(l) ==
    IF l.srv = 0 THEN [l |-> l, val |-> NoServer]
    ELSE [l |-> [l EXCEPT !.servers[l.srv].state = "closed"], val |-> "nil"]

InitServer ==
    /\ srv = 0
    /\ servers = CallerServers
    /\ ret = NoCall
    /\ Registered /\ InitIdle /\ NoObjects /\ NoGoroutines

\* a panic of a lifecycle call ends the program
CanCall == ret.n < MaxLife /\ ret.val # "panic"

Returned(call, arg, out) ==
    /\ srv' = out.l.srv
    /\ servers' = out.l.servers
    /\ ret' = [n |-> ret.n + 1, call |-> call, arg |-> arg, val |-> out.val]

Run(server) ==
    /\ CanCall
    /\ Len(servers) < MaxServers
    /\ Returned("Run", server, PlumRun(Life, server))

RunTLS(server) ==
    /\ CanCall
    /\ Len(servers) < MaxServers
    /\ Returned("RunTLS", server, PlumRun(Life, server))

RunServer(server) ==
    /\ CanCall
    /\ Returned("RunServer", server, PlumRunServer(Life, server))

Shutdown ==
    /\ CanCall
    /\ Returned("Shutdown", -1, PlumShutdown(Life))

\* http.Server: a serving server accepts a request and calls its Handler, the
\* DefaultServeMux when that is nil
ServerServe(i) ==
    /\ ret.val # "panic"
    /\ servers[i].state = "serving"
    /\ servers' = [servers EXCEPT ![i].answered =
           @ \cup {IF servers[i].Handler = "" THEN "DefaultServeMux"
                   ELSE servers[i].Handler}]
    /\ UNCHANGED <<srv, ret>>

Rest == <<rvars, svars, cvars, gvars>>

NextServer ==
    \/ \E server \in {-1, 0} \cup Callers : Run(server) /\ UNCHANGED Rest
    \/ \E server \in {-1, 0} \cup Callers : RunTLS(server) /\ UNCHANGED Rest
    \/ \E server \in {0} \cup Callers : RunServer(server) /\ UNCHANGED Rest
    \/ Shutdown /\ UNCHANGED Rest
    \/ \E i \in 1..Len(servers) : ServerServe(i) /\ UNCHANGED Rest

SpecServer == InitServer /\ [][NextServer]_vars

(* ======================= properties ======================= *)
Held(r) == reqs[r].pc \in {"chain", "release"}
Ctx(r) == ctxs[reqs[r].ctx]
AtStart(r) == reqs[r].pc = "chain" /\ reqs[r].depth = 1 /\ ~reqs[r].ret

\* C1: a request the mux resolves with the empty pattern is answered with
\* status 404; it never returns without a status written.
NotFoundAnswered ==
    \A r \in Reqs : (reqs[r].pc = "done" /\ reqs[r].res = "miss") => reqs[r].status = 404

\* C2: a dispatched request takes exactly one context from the pool, runs its
\* chain holding that context with its own request and writer handles set, and
\* puts it back exactly once after the chain has returned; no panic of a handler
\* or middleware makes the dispatcher skip the Put.
OneContextPerRequest ==
    \A r \in Reqs :
        /\ reqs[r].pc # "crashed"
        /\ Held(r) => /\ reqs[r].gets = 1 /\ reqs[r].puts = 0
                      /\ reqs[r].ctx \notin pool
                      /\ Ctx(r).Request = r /\ Ctx(r).Writer = r
        /\ (reqs[r].pc = "done" /\ reqs[r].res = "hit") =>
               reqs[r].gets = 1 /\ reqs[r].puts = 1
        /\ reqs[r].res # "hit" => reqs[r].gets = 0 /\ reqs[r].puts = 0

OneContextWitness ==
    \E r \in Reqs : reqs[r].pc = "done" /\ reqs[r].panicked /\ reqs[r].puts = 1
                    /\ reqs[r].ctx \in pool

\* C3: no context is held by two requests in flight at once, and no request
\* reads through Get an entry another request stored with Set.
NoSharedContext ==
    /\ \A r1, r2 \in Reqs : (r1 # r2 /\ Held(r1) /\ Held(r2)) => reqs[r1].ctx # reqs[r2].ctx
    /\ \A r \in Reqs : reqs[r].seen \in {-1, 0, r}

NoSharedWitness ==
    \E r1, r2 \in Reqs :
        /\ r1 # r2 /\ InChain(r1) /\ InChain(r2)
        /\ <<"k", r1>> \in Ctx(r1).Keys.kv
        /\ reqs[r2].seen = 0

\* C4: when the first closure of a request's chain starts, the context has
\* index -1, is not aborted, has a nil bag, no parameters, no handlers and the
\* default same-site setting, and carries the request's own handles.
FreshAtStart ==
    \A r \in Reqs : AtStart(r) =>
        /\ Ctx(r).index = -1 /\ ~IsAborted(Ctx(r))
        /\ Ctx(r).Keys = NilKeys
        /\ Ctx(r).Params = <<>>
        /\ Ctx(r).handlers = <<>>
        /\ Ctx(r).sameSite = 0
        /\ Ctx(r).Request = r /\ Ctx(r).Writer = r

FreshWitness ==
    \E r1, r2 \in Reqs :
        /\ reqs[r1].pc = "done" /\ reqs[r1].abortAt # 0 /\ nops = MaxOps
        /\ reqs[r1].ctx = 1
        /\ AtStart(r2) /\ reqs[r2].ctx = 1

\* C5: once the closure at position k has called Abort, no closure at a
\* position greater than k starts for that request.
AbortStopsLater == \A r \in Reqs : ~reqs[r].late

\* C6 as claimed: a panic in a handler or middleware, before or after it wrote
\* to the response, ends with status 500 and the context aborted, and does not
\* leave the dispatcher.
PanicGives500 ==
    \A r \in Reqs :
        /\ reqs[r].pc # "crashed"
        /\ (reqs[r].pc = "release" /\ reqs[r].panicked) =>
               reqs[r].status = StatusInternalServerError /\ IsAborted(Ctx(r))

\* C6 as amended: the panic does not leave the dispatcher and leaves the
\* context aborted; the status is 500 when none was written before the panic,
\* and the one already written otherwise.
PanicGives500UnlessWritten ==
    \A r \in Reqs :
        /\ reqs[r].pc # "crashed"
        /\ (reqs[r].pc = "release" /\ reqs[r].panicked) =>
               /\ IsAborted(Ctx(r))
               /\ reqs[r].status = IF reqs[r].before = 0 THEN StatusInternalServerError
                                   ELSE reqs[r].before

PanicWitness ==
    \E r1, r2 \in Reqs :
        /\ r1 # r2
        /\ reqs[r1].pc = "release" /\ reqs[r1].panicked /\ reqs[r1].before = 0
        /\ reqs[r1].status = StatusInternalServerError
        /\ InChain(r2) /\ reqs[r2].status = 0 /\ ~IsAborted(Ctx(r2))

\* C7: a route's chain enters the middleware in the order it was supplied:
\* what the parent had at group creation, then what Group was given, then what
\* Use added to the router, each list first to last, and then the handler.
SuppliedOrder ==
    \A g \in regs : \E x \in routes :
        x.pattern = g.pattern /\ x.h = g.supplied \o <<g.handler>>

SuppliedOrderWitness ==
    \E g \in regs :
        /\ g.router >= 3
        /\ order[g.router].inherited # <<>>
        /\ Len(order[g.router].group) = 2
        /\ Len(g.supplied) = Len(order[g.router].inherited) + 3

\* C8: a Use call on a router leaves the registered routes, every other
\* router and every other router's middleware list as they were.
UseFrame ==
    [][\A r \in 1..Len(routers) :
          order'[r].used # order[r].used =>
              /\ routes' = routes
              /\ \A j \in (1..Len(routers)) \ {r} :
                     /\ routers'[j] = routers[j]
                     /\ arr'[routers'[j].middlewares] = arr[routers[j].middlewares]]_vars

UseFrameWitness ==
    /\ Len(routers) >= 3
    /\ order[3].inherited = <<Recover>>
    /\ order[1].used # <<Recover>>
    /\ arr[routers[3].middlewares] = <<Recover>>
    /\ \E g \in regs : g.router = 1 /\ g.supplied = <<Recover>>

\* C9: Recover is the outermost closure of every registered route, and the
\* last element of every router's list, so of every route still to come.
RecoverOutermost ==
    /\ \A x \in routes : x.h[1] = Recover
    /\ \A i \in 1..Len(routers) :
           LET l == arr[routers[i].middlewares] IN l[Len(l)] = Recover

RecoverOutermostWitness == Registered

\* C10: in a request in which AbortWithStatus(401) was called no later
\* closure of the chain starts, and the request ends with status 401 and the
\* context aborted.
Unauthorized401 ==
    \A r \in Reqs :
        reqs[r].unauth # 0 =>
            /\ ~reqs[r].lateU
            /\ reqs[r].pc = "release" =>
                   reqs[r].status = StatusUnauthorized /\ IsAborted(Ctx(r))

View(i) == [Request |-> objs[i].Request, index |-> objs[i].index,
            bag |-> Bag(Mem, i), params |-> ParamList(Mem, i)]

\* C11: a copy starts aborted, with the request handle of the original and
\* with a bag and a parameter list of its own that hold what the original's
\* held at the call; Copy leaves the original's index, bag and parameters as
\* they were; from then on each object shows only what was stored through it.
CopyIsSnapshot ==
    \A i \in Objs :
        /\ View(i) = [Request |-> hist[i].Request, index |-> hist[i].index,
                      bag |-> hist[i].bag, params |-> hist[i].params]
        /\ hist[i].of # 0 =>
               /\ IsAborted(objs[i])
               /\ \A j \in Objs \ {i} : /\ objs[i].Keys # objs[j].Keys
                                        /\ objs[i].Params.ref # objs[j].Params.ref

CopyWitness ==
    \E i \in Objs :
        /\ hist[i].of = 1
        /\ Bag(Mem, 1) # {} /\ Bag(Mem, i) # {} /\ Bag(Mem, 1) # Bag(Mem, i)
        /\ ParamList(Mem, i) # <<>>

\* C14: IsAborted is true exactly when Abort was called on the context since
\* its last reset, whatever the number of Next calls.
AbortedIffAbortCalled == IsAborted(objs[1]) <=> hist[1].aborted

\* the strings of a list, one after the other
RECURSIVE Joined(_)
Joined(l) == IF l = <<>> THEN <<>> ELSE Head(l) \o Joined(Tail(l))

\* some paths below a path
Below(path) ==
    LET dir == IF HasSuffixSlash(path) THEN path ELSE path \o <<"/">>
    IN  {dir \o <<"x">>, dir \o <<"x", "/">>, dir \o <<"x", "/", "y">>}

\* C12: the pattern of a route is its method, a space, the relative paths of
\* the Group calls that led to its router, and the path given to Handle, with
\* "{$}" behind it exactly when that path ends in "/"; such a route matches
\* its own path and no path below it.
PatternOfRoute ==
    \A g \in regs :
        LET scope == Joined(order[g.router].rel)
            slash == g.route # <<>> /\ g.route[Len(g.route)] = "/"
            want == <<g.method, " ">> \o scope \o g.route \o
                    (IF slash THEN <<"{$}">> ELSE <<>>)
        IN  /\ g.pattern = want
            /\ \E x \in routes : x.pattern = want
            /\ MuxMatches(g.pattern, g.method, scope \o g.route)
            /\ slash => \A q \in Below(scope \o g.route) :
                            ~MuxMatches(g.pattern, g.method, q)

PatternWitness ==
    \E g \in regs :
        /\ Len(order[g.router].rel) = 2
        /\ g.route = <<"/", "dir", "/">>
        /\ g.pattern[Len(g.pattern)] = "{$}"

\* C16: Use and Group leave the caller's slice as it was: after any number of
\* Use(ms...) and Group(path, ms...) calls the elements of ms are in the
\* order the caller put them in.
CallerSliceUnchanged == arr[ms] = <<"A", "B">>

HandlerIsPlum ==
    srv # 0 => /\ servers[srv].Handler = "plum"
               /\ servers[srv].answered \subseteq {"plum"}

\* C15: Set, Get and Copy access the bag of a context only under its lock,
\* so no write of the bag by one goroutine overlaps a read or a write of it
\* by another.
NoOverlappingWrite ==
    \A g1, g2 \in Gors :
        (g1 # g2 /\ gor[g1].acc = "write") => gor[g2].acc = ""

====
